---- MODULE Spec2Model ----
(***************************************************************************)
(* Model of src/ingestion/ingest.py: the StructuredLogger wrapper, the     *)
(* IngestionPipeline (constructor, load_documents, create_vector_store,    *)
(* run) and the main() entry point.                                        *)
(*                                                                         *)
(* Strings that are matched or compared character by character (file       *)
(* names, extensions, glob patterns) are sequences of one-character        *)
(* strings.  The external collaborators (Docling parser, Chroma client,    *)
(* index builder) are modelled by their outcomes: a call either succeeds   *)
(* or raises, chosen nondeterministically where the code cannot know.      *)
(***************************************************************************)
EXTENDS Integers, Sequences, FiniteSets, TLC

\* ---------------------------------------------------------------- bounds
MaxConstructs == 2      \* IngestionPipeline(...) calls per process
MaxRuns == 2            \* run(...) calls per process
MaxFormats == 2         \* entries of ingestion.supported_formats

\* ------------------------------------------------------------ the world
\* Files that may be present in the data directory.
FileXa == <<"x", ".", "a">>
FileYa == <<"y", ".", "a">>
FileZb == <<"z", ".", "b">>
FileNames == {FileXa, FileYa, FileZb}

\* Order in which the operating system enumerates the directory.
ListDir == <<FileXa, FileYa, FileZb>>

\* Extension strings a configuration may list; "*" is a legal character of
\* a YAML string and of a POSIX file name.
Exts == {<<"a">>, <<"*">>}

RECURSIVE SeqsUpTo(_, _)
SeqsUpTo(S, n) ==
    IF n = 0 THEN {<<>>}
    ELSE LET shorter == SeqsUpTo(S, n - 1)
         IN  shorter \cup {Append(s, e) : s \in {t \in shorter : Len(t) = n - 1}, e \in S}

DefaultFormats == <<<<"a">>, <<"b">>>>

\* Keys the program reads with config[...][...] (no default).
RequiredKeys ==
    {"embedding.api_key_env", "embedding.model", "llm.model", "llm.temperature",
     "chunking.chunk_size", "chunking.chunk_overlap",
     "ingestion.data_directory", "ingestion.supported_formats",
     "vector_db.host", "vector_db.port", "vector_db.collection_name"}

Levels == {"INFO", "WARNING", "ERROR", "CRITICAL"}

MkConfig(file, missing, formats, host, level) ==
    [file |-> file, missing |-> missing, formats |-> formats,
     host |-> host, level |-> level]

\* Configuration files the program may be pointed at: the ones that differ
\* in the format list, and the ones that differ in anything else.
FormatConfigs ==
    {MkConfig("ok", "none", f, "localhost", "INFO") :
        f \in SeqsUpTo(Exts, MaxFormats)}

OtherConfigs ==
    {MkConfig("ok", "none", DefaultFormats, "localhost", l) :
        l \in Levels \cup {"VERBOSE"}}
    \cup {MkConfig("ok", k, DefaultFormats, h, "INFO") :
        k \in {"none", "vector_db.host", "vector_db.port",
               "vector_db.collection_name"},
        h \in {"localhost", "remote"}}
    \cup {MkConfig("ok", k, DefaultFormats, "localhost", "INFO") :
        k \in RequiredKeys}
    \cup {MkConfig(s, "none", DefaultFormats, "localhost", "INFO") :
        s \in {"missing", "malformed"}}

Configs == FormatConfigs \cup OtherConfigs

HasKey(c, k) == c.missing # k

\* ------------------------------------------------------------- logging
\* logging.INFO < logging.WARNING < logging.ERROR < logging.CRITICAL
LevelNo(l) ==
    CASE l = "INFO" -> 20
      [] l = "WARNING" -> 30
      [] l = "ERROR" -> 40
      [] l = "CRITICAL" -> 50

\* The handler built on the stream print() writes to.
HandlerStreamStdout == "stdout"

\* Stream of logging.StreamHandler() built without an argument.
HandlerStream == "stderr"

\* One call of StructuredLogger._log: the JSON entry it builds.
LogEntry(level, message, file) ==
    [level |-> level, message |-> message, file |-> file]

NoFile == <<>>

Info(m) == LogEntry("INFO", m, NoFile)
Warning(m) == LogEntry("WARNING", m, NoFile)
Error(m) == LogEntry("ERROR", m, NoFile)

RECURSIVE Copies(_, _)
Copies(e, n) == IF n = 0 THEN <<>> ELSE <<e>> \o Copies(e, n - 1)

\* Logger.log: a record at or above the logger's level is handed to every
\* handler attached to the logger, and each handler writes it once.
RECURSIVE Emit(_, _, _)
Emit(calls, h, lvl) ==
    IF calls = <<>> THEN <<>>
    ELSE (IF LevelNo(Head(calls).level) >= LevelNo(lvl)
          THEN Copies(Head(calls), h) ELSE <<>>)
         \o Emit(Tail(calls), h, lvl)

\* ---------------------------------------------------------------- glob
\* fnmatch of a name against a pattern in which "*" matches any run of
\* characters and every other character matches itself (case-sensitive).
RECURSIVE Match(_, _)
Match(s, p) ==
    IF p = <<>> THEN s = <<>>
    ELSE IF Head(p) = "*"
         THEN Match(s, Tail(p)) \/ (s # <<>> /\ Match(Tail(s), p))
         ELSE s # <<>> /\ Head(s) = Head(p) /\ Match(Tail(s), Tail(p))

\* f"*.{ext}"
GlobPattern(ext) == <<"*", ".">> \o ext

\* list(data_dir.glob(pattern)) over the directory content d.
Glob(d, pattern) ==
    SelectSeq(ListDir, LAMBDA f : f \in d /\ Match(f, pattern))

\* The loop "for ext in supported_formats: file_paths.extend(glob)".
RECURSIVE FilePaths(_, _)
FilePaths(d, formats) ==
    IF formats = <<>> THEN <<>>
    ELSE Glob(d, GlobPattern(Head(formats))) \o FilePaths(d, Tail(formats))

\* The part of a file name after its last "." (empty when there is none).
RECURSIVE Extension(_)
Extension(name) ==
    IF name = <<>> THEN <<>>
    ELSE IF \E i \in 2..Len(name) : name[i] = "."
         THEN Extension(Tail(name))
         ELSE IF Head(name) = "." THEN Tail(name) ELSE <<>>

Range(s) == {s[i] : i \in 1..Len(s)}

\* --------------------------------------------------------------- state
VARIABLES
    cfg,            \* content of the configuration file
    env,            \* TRUE iff the API-key environment variable is non-empty
    dirExists,      \* the data directory exists
    dir,            \* files in the data directory
    bad,            \* files on which the parser raises
    backend,        \* "healthy": every vector-store and embedding call succeeds;
                    \* "flaky": each of them may fail
    collExists,     \* the configured collection exists in the vector store
    coll,           \* its entries <<run, position, source file>>
    collBefore,     \* the collection as it was when the current run began
    handlers,       \* handlers attached to logging.getLogger('ingestion')
    loggerLevel,    \* level of that logger
    stderr,         \* records written to stderr since the current call began
    stdout,         \* records written to stdout since the current call began
    logCalls,       \* StructuredLogger._log calls since the current call began
    ioLog,          \* kinds of file-system access the process has made
    pc,             \* position of the caller / of run() / of main()
    inMain,         \* the process is executing main()
    reset,          \* the reset argument of the current run
    nconstructs,    \* IngestionPipeline(...) calls made
    nruns,          \* run() calls that have ended
    history,        \* the last two run() calls that have ended, oldest first
    loadOut,        \* outcome of the last load_documents call
    storeCall,      \* what the last create_vector_store call did
    vectorStore,    \* value returned by create_vector_store
    clientCreated,  \* a chromadb client was created in the current run
    phases,         \* phases the current run has entered
    lastCall,       \* the last top-level call made
    lastExc,        \* exception raised by the last top-level call
    runResult,      \* how the last run() ended
    exitCode        \* exit status of the process

vars == <<cfg, env, dirExists, dir, bad, backend, collExists, coll, collBefore, handlers,
          loggerLevel, stderr, stdout, logCalls, ioLog, pc, inMain, reset, nconstructs,
          nruns, history, loadOut, storeCall, vectorStore, clientCreated, phases,
          lastCall, lastExc, runResult, exitCode>>

world == <<cfg, env, dirExists, dir, bad, backend>>

NoLoad == [called |-> FALSE, raised |-> FALSE, docs |-> <<>>,
           paths |-> <<>>, parsed |-> <<>>, records |-> <<>>]
NoStoreCall == [client |-> "none", del |-> "skipped", goc |-> "notreached"]

\* Entries left in the collection by earlier processes.
OldEntries == {<<0, 1, FileXa>>}

\* The process starts in one of two families of worlds.  Where the format
\* list varies, so does everything about the data directory, over a healthy
\* store with prior content; where anything else of the configuration
\* varies, so does the store and its health, over the directories that
\* differ in what gets loaded.
LoaderWorld ==
    /\ cfg \in FormatConfigs
    /\ dirExists \in BOOLEAN
    /\ dir \in SUBSET FileNames
    /\ bad \in SUBSET dir
    /\ backend = "healthy"
    /\ collExists = TRUE
    /\ coll = OldEntries

StoreWorld ==
    /\ cfg \in OtherConfigs
    /\ dirExists \in BOOLEAN
    /\ dir \in {{}, {FileXa}, {FileXa, FileYa}}
    /\ bad \in SUBSET (dir \cap {FileYa})
    /\ backend = "flaky"
    /\ collExists \in BOOLEAN
    /\ coll \in {{}, OldEntries}

Init ==
    /\ LoaderWorld \/ StoreWorld
    /\ env \in BOOLEAN
    /\ (~dirExists => dir = {})
    /\ (~collExists => coll = {})
    /\ collBefore = [exists |-> collExists, entries |-> coll]
    /\ handlers = 0
    /\ loggerLevel = "WARNING"
    /\ stderr = <<>>
    /\ stdout = <<>>
    /\ logCalls = <<>>
    /\ ioLog = {}
    /\ pc = "idle"
    /\ inMain = FALSE
    /\ reset = FALSE
    /\ nconstructs = 0
    /\ nruns = 0
    /\ history = <<>>
    /\ loadOut = NoLoad
    /\ storeCall = NoStoreCall
    /\ vectorStore = "none"
    /\ clientCreated = FALSE
    /\ phases = <<>>
    /\ lastCall = "none"
    /\ lastExc = "none"
    /\ runResult = "none"
    /\ exitCode = -1

\* Write the records of the given log calls, made with h handlers attached
\* and the logger at level lvl, after the records already written.
Written(stream, before, calls, h, lvl) ==
    IF HandlerStream = stream THEN before \o Emit(calls, h, lvl) ELSE before

\* ----------------------------------------- IngestionPipeline.__init__
\* The check of the API key left out.
ApiKeyMissingNever(e) == FALSE

\* "if not api_key": the variable must be set and non-empty.
ApiKeyMissing(e) == ~e

\* Keys read after the API-key check, in the order the constructor reads them.
SettingsKeys == <<"embedding.model", "llm.model", "llm.temperature",
                  "chunking.chunk_size", "chunking.chunk_overlap">>

\* The constructor, as the exception it raises ("none" when it returns).
ConstructExc(c, e) ==
    IF c.file = "missing" THEN "FileNotFoundError"
    ELSE IF c.file = "malformed" THEN "YAMLError"
    ELSE IF c.level \notin Levels THEN "AttributeError"
    ELSE IF ~HasKey(c, "embedding.api_key_env") THEN "KeyError"
    ELSE IF ApiKeyMissing(e) THEN "ValueError"
    ELSE IF \E i \in 1..Len(SettingsKeys) : ~HasKey(c, SettingsKeys[i]) THEN "KeyError"
    ELSE "none"

\* StructuredLogger.__init__ has run: the configuration was read and names
\* a level of the logging module.
LoggerBuilt(c) == c.file = "ok" /\ c.level \in Levels

\* Log calls the constructor makes.
ConstructCalls(c, e) ==
    IF ~LoggerBuilt(c) THEN <<>>
    ELSE <<Info("Ingestion pipeline initialized")>>
         \o (IF ConstructExc(c, e) = "none"
             THEN <<Info("LlamaIndex and Docling configured successfully")>>
             ELSE <<>>)

\* State change of IngestionPipeline(config_path), given the records
\* already written in the current call.
ConstructEffect(errBefore, outBefore, callsBefore) ==
    LET exc == ConstructExc(cfg, env)
        h == IF LoggerBuilt(cfg) THEN handlers + 1 ELSE handlers
        lvl == IF LoggerBuilt(cfg) THEN cfg.level ELSE loggerLevel
        calls == ConstructCalls(cfg, env)
    IN  /\ ioLog' = ioLog \cup {"config_file"}
        /\ handlers' = h
        /\ loggerLevel' = lvl
        /\ logCalls' = callsBefore \o calls
        /\ stderr' = Written("stderr", errBefore, calls, h, lvl)
        /\ stdout' = Written("stdout", outBefore, calls, h, lvl)
        /\ nconstructs' = nconstructs + 1
        /\ lastCall' = "construct"
        /\ lastExc' = exc

\* A caller other than main() constructs a pipeline.  Constructing and
\* running commute (the constructor touches the logger and nothing a run
\* reads but the logger), so the caller's constructions are taken first.
Construct ==
    /\ ~inMain
    /\ pc \in {"idle", "ready"}
    /\ nconstructs < MaxConstructs
    /\ nruns = 0
    /\ ConstructEffect(<<>>, <<>>, <<>>)
    /\ pc' = IF ConstructExc(cfg, env) = "none" THEN "ready" ELSE pc
    /\ UNCHANGED <<world, collBefore, collExists, coll, inMain, reset, nruns, history, loadOut,
                   storeCall, vectorStore, clientCreated, phases, runResult,
                   exitCode>>

\* ------------------------------------------------- logging from a method
\* The pipeline's logger makes the given calls.
Log(calls) ==
    /\ logCalls' = logCalls \o calls
    /\ stderr' = Written("stderr", stderr, calls, handlers, loggerLevel)
    /\ stdout' = Written("stdout", stdout, calls, handlers, loggerLevel)

\* ------------------------------------- IngestionPipeline.load_documents
\* self.reader.load_data(file_path=...): one document per parsed file,
\* named after its source.
RECURSIVE ParsedDocs(_, _)
ParsedDocs(paths, b) ==
    IF paths = <<>> THEN <<>>
    ELSE (IF Head(paths) \in b THEN <<>> ELSE <<Head(paths)>>)
         \o ParsedDocs(Tail(paths), b)

\* The log call each iteration of the per-file loop makes.
RECURSIVE ParseCalls(_, _)
ParseCalls(paths, b) ==
    IF paths = <<>> THEN <<>>
    ELSE <<IF Head(paths) \in b
           THEN LogEntry("ERROR", "Failed to load document", Head(paths))
           ELSE LogEntry("INFO", "Loaded document", Head(paths))>>
         \o ParseCalls(Tail(paths), b)

\* load_documents(data_dir) under configuration c, with the directory
\* existing or not, holding the files d, of which b make the parser raise.
LoadDocuments(c, exists, d, b) ==
    IF ~exists THEN
        [called |-> TRUE, raised |-> FALSE, docs |-> <<>>, paths |-> <<>>,
         parsed |-> <<>>, io |-> {"dir_stat"},
         calls |-> <<Error("Data directory does not exist")>>]
    ELSE IF ~HasKey(c, "ingestion.supported_formats") THEN
        [called |-> TRUE, raised |-> TRUE, docs |-> <<>>, paths |-> <<>>,
         parsed |-> <<>>, io |-> {"dir_stat"},
         calls |-> <<Error("Document loading failed")>>]
    ELSE LET paths == FilePaths(d, c.formats) IN
        IF paths = <<>> THEN
            [called |-> TRUE, raised |-> FALSE, docs |-> <<>>, paths |-> <<>>,
             parsed |-> <<>>, io |-> {"dir_stat", "dir_glob"},
             calls |-> <<Warning("No documents found")>>]
        ELSE
            [called |-> TRUE, raised |-> FALSE, docs |-> ParsedDocs(paths, b),
             paths |-> paths, parsed |-> paths,
             io |-> {"dir_stat", "dir_glob", "doc_read"},
             calls |-> <<Info("Found documents")>> \o ParseCalls(paths, b)
                       \o <<Info("Document loading complete")>>]

\* What the state keeps of a load_documents call: the records it wrote
\* instead of the calls it made.
LoadOutcome(r) ==
    [called |-> r.called, raised |-> r.raised, docs |-> r.docs,
     paths |-> r.paths, parsed |-> r.parsed,
     records |-> Emit(r.calls, handlers, loggerLevel)]

\* ------------------------------------------------ IngestionPipeline.run
\* run() ends with the documents docs loaded: it returned result ("index"
\* or "None") or raised exc.
RunEnds(result, exc, docs) ==
    /\ nruns' = nruns + 1
    /\ history' = Append(IF Len(history) = 2 THEN Tail(history) ELSE history,
                         [run |-> nruns + 1, reset |-> reset, result |-> result,
                          ndocs |-> Len(docs)])
    /\ runResult' = result
    /\ lastExc' = exc
    /\ pc' = IF ~inMain THEN "ready"
             ELSE IF exc = "none" THEN "main_return" ELSE "main_except"

\* The handler "except Exception as e: log; raise" of run().
RunFailed == <<Error("Ingestion pipeline failed")>>

\* run(reset=r) is called and logs its start.
RunStart(r) ==
    /\ \/ ~inMain /\ pc = "ready"
       \/ inMain /\ pc = "main_run" /\ r = reset
    /\ nruns < MaxRuns
    /\ reset' = r
    /\ pc' = "LOAD_DOCS"
    /\ phases' = <<"START">>
    /\ lastCall' = "run"
    /\ lastExc' = "none"
    /\ runResult' = "running"
    /\ loadOut' = NoLoad
    /\ storeCall' = NoStoreCall
    /\ vectorStore' = "none"
    /\ clientCreated' = FALSE
    /\ collBefore' = [exists |-> collExists, entries |-> coll]
    /\ logCalls' = (IF inMain THEN logCalls ELSE <<>>)
                   \o <<Info("Starting ingestion pipeline")>>
    /\ stderr' = Written("stderr", IF inMain THEN stderr ELSE <<>>,
                         <<Info("Starting ingestion pipeline")>>, handlers, loggerLevel)
    /\ stdout' = Written("stdout", IF inMain THEN stdout ELSE <<>>,
                         <<Info("Starting ingestion pipeline")>>, handlers, loggerLevel)
    /\ UNCHANGED <<world, collExists, coll, handlers, loggerLevel, ioLog, inMain,
                   nconstructs, nruns, history, exitCode>>

\* The emptiness check left out.
NothingLoadedNever(docs) == FALSE

\* "if not documents": the run stops when nothing was loaded.
NothingLoaded(docs) == docs = <<>>

\* Step 1 of run(): read the data directory, load the documents, and stop
\* the run when there are none.
LoadDocs ==
    /\ pc = "LOAD_DOCS"
    /\ phases' = Append(phases, "LOAD_DOCS")
    /\ IF ~HasKey(cfg, "ingestion.data_directory") THEN
           /\ loadOut' = loadOut
           /\ ioLog' = ioLog
           /\ Log(RunFailed)
           /\ RunEnds("raised", "KeyError", <<>>)
       ELSE LET r == LoadDocuments(cfg, dirExists, dir, bad) IN
           /\ loadOut' = LoadOutcome(r)
           /\ ioLog' = ioLog \cup r.io
           /\ IF r.raised THEN
                  /\ Log(r.calls \o RunFailed)
                  /\ RunEnds("raised", "KeyError", r.docs)
              ELSE IF NothingLoaded(r.docs) THEN
                  /\ Log(r.calls \o <<Error("No documents loaded")>>)
                  /\ RunEnds("None", "none", r.docs)
              ELSE
                  /\ Log(r.calls)
                  /\ pc' = "OPEN_STORE"
                  /\ UNCHANGED <<nruns, history, runResult, lastExc>>
    /\ UNCHANGED <<world, collBefore, collExists, coll, handlers, loggerLevel, inMain, reset,
                   nconstructs, storeCall, vectorStore, clientCreated, lastCall,
                   exitCode>>

\* ------------------------------- IngestionPipeline.create_vector_store
\* The collection deleted whatever the flag.
ResetAlways(r) == TRUE

\* "if reset:" guards the deletion of the collection.
ResetRequested(r) == r

\* chroma_client.delete_collection(name) raises when the collection does
\* not exist or when the backend fails the call.
DeleteRaises(exists, delOk) == ~exists \/ ~delOk

\* The inner try statement left out: a failed deletion leaves the method.
DeletePropagatesAlways(failed) == failed

\* "except Exception: pass": a failure of the deletion does not leave the
\* inner try statement.
DeletePropagates(failed) == FALSE

\* create_vector_store(reset=r) with the collection existing or not and
\* holding entries; clientOk, delOk and gocOk say whether the backend lets
\* the client be created, the collection be deleted, and the collection be
\* got or created.
CreateVectorStore(c, r, exists, entries, clientOk, delOk, gocOk) ==
    LET local == c.host = "localhost"
        io == IF HasKey(c, "vector_db.host") /\ local THEN {"persist_mkdir"} ELSE {}
        failed(exc, client, del, goc, ex, en, calls) ==
            [exc |-> exc, client |-> client, del |-> del, goc |-> goc,
             exists |-> ex, entries |-> en, io |-> io, store |-> "none",
             calls |-> calls \o <<Error("Failed to create vector store")>>]
        tryDelete == ResetRequested(r)
        delFails == tryDelete /\ DeleteRaises(exists, delOk)
        del == IF ~tryDelete THEN "skipped" ELSE IF delFails THEN "failed" ELSE "ok"
        ex1 == IF del = "ok" THEN FALSE ELSE exists
        en1 == IF del = "ok" THEN {} ELSE entries
        delCalls == IF del = "ok" THEN <<Info("Deleted existing collection")>> ELSE <<>>
    IN  IF ~HasKey(c, "vector_db.host") THEN
            failed("KeyError", "none", "skipped", "notreached", exists, entries, <<>>)
        ELSE IF ~local /\ ~HasKey(c, "vector_db.port") THEN
            failed("KeyError", "none", "skipped", "notreached", exists, entries, <<>>)
        ELSE IF ~clientOk THEN
            failed("StoreError", "failed", "skipped", "notreached", exists, entries, <<>>)
        ELSE IF ~HasKey(c, "vector_db.collection_name") THEN
            failed("KeyError", "created", "skipped", "notreached", exists, entries, <<>>)
        ELSE IF delFails /\ DeletePropagates(delFails) THEN
            failed("DeleteError", "created", del, "notreached", ex1, en1, delCalls)
        ELSE IF ~gocOk THEN
            failed("StoreError", "created", del, "failed", ex1, en1, delCalls)
        ELSE
            [exc |-> "none", client |-> "created", del |-> del, goc |-> "ok",
             exists |-> TRUE, entries |-> en1, io |-> io, store |-> "handle",
             calls |-> delCalls \o <<Info("Vector store ready")>>]

\* Step 2 of run(): open the vector store.
OpenStore(clientOk, delOk, gocOk) ==
    /\ pc = "OPEN_STORE"
    /\ backend = "healthy" => clientOk /\ delOk /\ gocOk
    /\ phases' = Append(phases, "OPEN_STORE")
    /\ LET s == CreateVectorStore(cfg, reset, collExists, coll,
                                  clientOk, delOk, gocOk) IN
        /\ storeCall' = [client |-> s.client, del |-> s.del, goc |-> s.goc]
        /\ clientCreated' = (s.client = "created")
        /\ vectorStore' = s.store
        /\ collExists' = s.exists
        /\ coll' = s.entries
        /\ ioLog' = ioLog \cup s.io
        /\ IF s.exc # "none" THEN
               /\ Log(s.calls \o RunFailed)
               /\ RunEnds("raised", s.exc, loadOut.docs)
           ELSE
               /\ Log(s.calls)
               /\ pc' = "BUILD_INDEX"
               /\ UNCHANGED <<nruns, history, runResult, lastExc>>
    /\ UNCHANGED <<world, collBefore, handlers, loggerLevel, inMain, reset, nconstructs,
                   loadOut, lastCall, exitCode>>

\* Entries VectorStoreIndex.from_documents adds for the documents of run n:
\* every node gets a fresh identifier, so nothing is overwritten.
NewEntries(n, docs) == {<<n, i, docs[i]>> : i \in 1..Len(docs)}

\* Steps 3 and 4 of run(): build the index into the opened store; the
\* embedding or the store may fail the build.
BuildIndex(ok) ==
    /\ pc = "BUILD_INDEX"
    /\ backend = "healthy" => ok
    /\ phases' = IF ok THEN phases \o <<"BUILD_INDEX", "DONE">>
                 ELSE Append(phases, "BUILD_INDEX")
    /\ IF ok THEN
           /\ coll' = coll \cup NewEntries(nruns + 1, loadOut.docs)
           /\ Log(<<Info("Building vector index..."),
                    Info("Vector index built successfully"),
                    Info("Ingestion pipeline completed successfully")>>)
           /\ RunEnds("index", "none", loadOut.docs)
       ELSE
           /\ coll' = coll
           /\ Log(<<Info("Building vector index...")>> \o RunFailed)
           /\ RunEnds("raised", "IndexBuildError", loadOut.docs)
    /\ UNCHANGED <<world, collBefore, collExists, handlers, loggerLevel, ioLog, inMain, reset,
                   nconstructs, loadOut, storeCall, vectorStore, clientCreated,
                   lastCall, exitCode>>

\* ----------------------------------------------------------------- main
\* main() parses its arguments (--reset gives r) and constructs the pipeline.
MainConstruct(r) ==
    /\ ~inMain
    /\ pc = "idle"
    /\ nconstructs = 0
    /\ inMain' = TRUE
    /\ reset' = r
    /\ ConstructEffect(<<>>, <<>>, <<>>)
    /\ pc' = IF ConstructExc(cfg, env) = "none" THEN "main_run" ELSE "main_except"
    /\ UNCHANGED <<world, collBefore, collExists, coll, nruns, history, loadOut, storeCall,
                   vectorStore, clientCreated, phases, runResult, exitCode>>

\* print(json.dumps({... "level": "ERROR" ...})) of main()'s handler.
MainErrorRecord == LogEntry("ERROR", "Pipeline execution failed", NoFile)

\* Exit status main() gives the process: sys.exit(1) in the handler,
\* a normal return otherwise.
ExitStatus(failed) == IF failed THEN 1 ELSE 0

\* main() ends: through its except clause, or by returning.
MainExit ==
    /\ inMain
    /\ pc \in {"main_return", "main_except"}
    /\ stdout' = IF pc = "main_except" THEN Append(stdout, MainErrorRecord) ELSE stdout
    /\ exitCode' = ExitStatus(pc = "main_except")
    /\ pc' = "exited"
    /\ UNCHANGED <<world, collBefore, collExists, coll, handlers, loggerLevel, stderr, logCalls,
                   ioLog, inMain, reset, nconstructs, nruns, history, loadOut, storeCall,
                   vectorStore, clientCreated, phases, lastCall, lastExc, runResult>>

Next ==
    \/ Construct
    \/ \E r \in BOOLEAN : RunStart(r)
    \/ LoadDocs
    \/ \E clientOk, delOk, gocOk \in BOOLEAN : OpenStore(clientOk, delOk, gocOk)
    \/ \E ok \in BOOLEAN : BuildIndex(ok)
    \/ \E r \in BOOLEAN : MainConstruct(r)
    \/ MainExit

Spec == Init /\ [][Next]_vars

TypeOK ==
    /\ pc \in {"idle", "ready", "LOAD_DOCS", "OPEN_STORE", "BUILD_INDEX",
               "main_run", "main_return", "main_except", "exited"}
    /\ handlers \in 0..MaxConstructs
    /\ nruns \in 0..MaxRuns
    /\ exitCode \in {-1, 0, 1}

\* =============================================================== claims
PhaseOrder == <<"START", "LOAD_DOCS", "OPEN_STORE", "BUILD_INDEX", "DONE">>

IsPrefix(s, t) == Len(s) <= Len(t) /\ \A i \in 1..Len(s) : s[i] = t[i]

\* Records of level ERROR among the given records.
ErrorRecords(records) == SelectSeq(records, LAMBDA e : e.level = "ERROR")

\* Log calls among the given ones that the logger's level lets through.
PassedCalls(calls) ==
    SelectSeq(calls, LAMBDA e : LevelNo(e.level) >= LevelNo(loggerLevel))

\* load_documents returned or raised in the current run, over a directory
\* in which files matched.
Matched == Range(loadOut.paths)

\* C1 (as claimed): when exactly one of the N matched files makes the
\* parser raise (and records of level ERROR are not suppressed),
\* load_documents does not raise, returns exactly the documents of the
\* other N-1 files, and writes exactly one ERROR record, which names the
\* failing file.
C1_ErrorIsolation ==
    (/\ loadOut.called
     /\ Cardinality(Matched \cap bad) = 1
     /\ LevelNo("ERROR") >= LevelNo(loggerLevel))
    => /\ ~loadOut.raised
       /\ Len(loadOut.docs) = Cardinality(Matched) - 1
       /\ Range(loadOut.docs) = Matched \ bad
       /\ Len(ErrorRecords(loadOut.records)) = 1
       /\ ErrorRecords(loadOut.records)[1].file \in bad

\* C2 (as claimed): once run(reset=True) has returned, the collection holds
\* no entry stored before that run.
C2_ResetEffective ==
    (lastCall = "run" /\ reset /\ runResult \in {"index", "None"})
    => \A e \in coll : e[1] = nruns

\* The constructor was called with a readable configuration that names the
\* API-key variable, and the variable is unset or empty.
KeyUnset ==
    /\ lastCall = "construct"
    /\ cfg.file = "ok"
    /\ HasKey(cfg, "embedding.api_key_env")
    /\ ~env

\* C3 (as claimed): with the API-key variable unset the constructor fails
\* and no file I/O at all has occurred.
C3_NoFileIO == KeyUnset => lastExc # "none" /\ ioLog = {}

\* C3 (amended): with the API-key variable unset the constructor fails - with
\* the "not set" ValueError when the configured logging level is valid - and
\* the only file I/O that has occurred is the reading of the configuration
\* file: the data directory was not looked at, no document was read, no
\* vector-store directory or client was created.
C3_OnlyConfigRead ==
    KeyUnset
    => /\ lastExc \in {"ValueError", "AttributeError"}
       /\ (cfg.level \in Levels => lastExc = "ValueError")
       /\ ioLog = {"config_file"}
       /\ ~loadOut.called
       /\ ~clientCreated
       /\ pc \in {"idle", "main_except", "exited"}

C3_Witness ==
    KeyUnset /\ lastExc = "ValueError" /\ ioLog = {"config_file"} /\ handlers = 1

\* C4: a run goes through START, LOAD_DOCS, OPEN_STORE, BUILD_INDEX, DONE in
\* this order, each at most once; the store is opened only after loading
\* returned documents, the index is built only into an opened store, and a
\* run whose loading returned nothing logs an error and returns None
\* without raising, opening the store or building an index.
C4_PhaseOrder ==
    /\ IsPrefix(phases, PhaseOrder)
    /\ (storeCall # NoStoreCall \/ clientCreated \/ vectorStore # "none")
       => loadOut.called /\ ~loadOut.raised /\ loadOut.docs # <<>>
    /\ (lastCall = "run" /\ \E e \in coll \ collBefore.entries : TRUE)
       => vectorStore = "handle" /\ storeCall.goc = "ok"
    /\ (lastCall = "run" /\ loadOut.called /\ ~loadOut.raised /\ loadOut.docs = <<>>)
       => /\ runResult = "None"
          /\ lastExc = "none"
          /\ Error("No documents loaded") \in Range(logCalls)
          /\ storeCall = NoStoreCall
          /\ ~clientCreated
          /\ vectorStore = "none"
          /\ coll = collBefore.entries
          /\ phases = <<"START", "LOAD_DOCS">>

C4_Witness ==
    /\ runResult = "None"
    /\ loadOut.paths # <<>>
    /\ Error("No documents loaded") \in Range(logCalls)
    /\ coll = OldEntries
    /\ nruns = 2

\* C5: main() exits with status 0 exactly when construction and run() ended
\* without an exception and with status 1 exactly when one of them raised;
\* in the latter case standard output holds exactly one record, the ERROR
\* record of main(), and before the exit it holds none.
C5_ExitContract ==
    /\ (inMain /\ pc # "exited") => exitCode = -1 /\ stdout = <<>>
    /\ pc = "exited"
       => /\ exitCode \in {0, 1}
          /\ exitCode = 0 <=> lastExc = "none"
          /\ exitCode = 1 => stdout = <<MainErrorRecord>>
          /\ exitCode = 0 => stdout = <<>>

C5_Witness ==
    /\ pc = "exited"
    /\ exitCode = 1
    /\ lastCall = "run"
    /\ Len(ErrorRecords(stderr)) >= 1
    /\ stdout = <<MainErrorRecord>>

\* C6 (as claimed): a failure for a missing, malformed or incomplete
\* configuration is raised before any file went to the parser and before
\* any vector-store client was created.
C6_ConfigErrorsBeforeWork ==
    lastExc \in {"FileNotFoundError", "YAMLError", "KeyError"}
    => loadOut.parsed = <<>> /\ ~clientCreated

\* The last two runs both returned an index without reset, the second one
\* just now.
TwoAdditiveRuns ==
    /\ lastCall = "run"
    /\ runResult = "index"
    /\ Len(history) = 2
    /\ \A i \in 1..2 : history[i].result = "index" /\ ~history[i].reset

\* C7: after two consecutive successful runs without reset the collection
\* holds the entries of both; a run without reset removes neither the
\* collection nor any entry of it.
C7_Additive ==
    /\ TwoAdditiveRuns
       => /\ \A i \in 1..2 : \A k \in 1..history[i].ndocs :
                \E e \in coll : e[1] = history[i].run /\ e[2] = k
          /\ history[1].ndocs > 0
          /\ Cardinality(coll) >= history[1].ndocs + history[2].ndocs
    /\ (lastCall = "run" /\ ~reset)
       => /\ collBefore.entries \subseteq coll
          /\ collBefore.exists => collExists

C7_Witness == TwoAdditiveRuns /\ OldEntries \subseteq coll /\ Cardinality(coll) >= 3

\* C8: when the deletion asked for by reset fails, the failure does not
\* leave create_vector_store: the collection is still got or created, and
\* with that succeeding the store is returned over an existing collection.
C8_ResetIdempotent ==
    storeCall.del = "failed"
    => /\ reset
       /\ storeCall.goc # "notreached"
       /\ lastExc # "DeleteError"
       /\ storeCall.goc = "ok" => vectorStore = "handle" /\ collExists

C8_Witness ==
    /\ storeCall.del = "failed"
    /\ vectorStore = "handle"
    /\ Len(history) >= 1
    /\ history[Len(history)].reset
    /\ runResult = "running"

\* C9 (as claimed): every file passed to the parser, and so the source of
\* every document, is a file of the directory whose extension is one of
\* the supported formats.
C9_ExtensionFilter ==
    /\ \A i \in 1..Len(loadOut.parsed) :
          /\ loadOut.parsed[i] \in dir
          /\ Extension(loadOut.parsed[i]) \in Range(cfg.formats)
    /\ \A i \in 1..Len(loadOut.docs) :
          Extension(loadOut.docs[i]) \in Range(cfg.formats)

\* C10 (as claimed): every log call the level lets through has written
\* exactly one record.
C10_OneRecordPerCall == Len(stderr) = Len(PassedCalls(logCalls))
====
